---- MODULE Spec2Model ----
(***************************************************************************)
(* A model of sadness-generator/src/sadness.c: five fault generators       *)
(* (sig_fpe, sig_segv, sig_ill, sig_bus, sig_trap) and the accessor        *)
(* definitely_not_zero, run by a harness that invokes them in isolated     *)
(* processes over one directory of a file system.  The target is x86/_64   *)
(* Linux, the only one the inline assembly of the file assembles for.      *)
(***************************************************************************)
EXTENDS Integers, Sequences, FiniteSets, TLC

\* ---------------------------------------------------------------- bounds
MaxPathLen == 2
MaxFileSize == 2
MaxCalls == 2

\* ------------------------------------------------------------- constants
\* length argument of mmap
MapLen == 128
\* the value of MAP_FAILED, (void *) -1
MAP_FAILED == -1
\* first descriptor open() can return: 0, 1 and 2 are the standard streams
FirstFd == 3

\* a null pointer, where a buffer of bytes (all >= 0) is expected
NULL == <<-1>>
\* what the directory holds for a name no file has
Absent == <<-1>>

\* the string "abc..." of k characters
PathOf(k) == [i \in 1..k |-> 96 + i]
\* the strings a caller passes (without their terminating NUL): "", "a", "ab", ...
Paths == {PathOf(k) : k \in 0..MaxPathLen}
\* the names a file of the directory can have
Names == Paths \ {<<>>}
\* the bytes "ABC..." of a file of k bytes
FileOf(k) == [i \in 1..k |-> 64 + i]
\* the contents a file has before the first invocation
Contents == {FileOf(k) : k \in 0..MaxFileSize}

FaultOps == {"sig_fpe", "sig_segv", "sig_ill", "sig_bus", "sig_trap"}

VARIABLES
    dir,       \* the parent directory: "missing", "readonly" or "writable"
    fs,        \* the files of the directory: name -> contents or Absent
    pc,        \* position of the process: "idle", "<function>:<line>", "dead"
    op,        \* the operation invoked last in this process
    status,    \* "fresh", "running", "returned", "signaled"
    sig,       \* the signal that terminated the process, or "none"
    out,       \* stdout of the process: the values printed
    heap,      \* number of live heap blocks of the process
    fdtab,     \* open descriptors: fdtab[i] is the file of descriptor FirstFd+i-1
    mappings,  \* live memory mappings: the file each one maps
    ret,       \* value returned by the last call of definitely_not_zero
    dnz_calls, \* number of calls of definitely_not_zero so far
    ohno,      \* sig_fpe's local
    path, path_len, fpath, bus_fd, bus_map,   \* sig_bus's arguments and locals
    calls,     \* operations invoked so far, over all processes
    steps,     \* history: library calls made by the current invocation
    fs0,       \* history: the files before the first invocation
    fs_call,   \* history: the files when the current invocation started
    alloc_ok,  \* history: whether calloc succeeded in the current invocation
    ref        \* history: inputs and outcome of the first finished sig_bus

env == <<dir, fs>>
proc == <<pc, op, status, sig, out, heap, fdtab, mappings>>
locals == <<ret, dnz_calls, ohno, path, path_len, fpath, bus_fd, bus_map>>
hist == <<calls, steps, fs0, fs_call, alloc_ok, ref>>
vars == <<env, proc, locals, hist>>

\* ------------------------------------------------------ library functions
\* the caller's array: the characters and their terminating NUL
CStr(s) == s \o <<0>>

\* strlen: the number of bytes before the first NUL
strlen(mem) == (CHOOSE i \in 1..Len(mem) : mem[i] = 0 /\ \A j \in 1..(i-1) : mem[j] # 0) - 1

\* the string a NUL-terminated buffer holds
StrOf(mem) == SubSeq(mem, 1, strlen(mem))

\* calloc(nmemb, size): a zeroed block of nmemb*size bytes, or NULL
calloc(nmemb, size, ok) == IF ok THEN [i \in 1..(nmemb * size) |-> 0] ELSE NULL

\* strncpy(dst, src, n): copies src up to its NUL, at most n bytes, and pads
\* with NUL up to n bytes; the bytes of dst from n on are left alone
strncpy(dst, src, n) ==
    [i \in 1..Len(dst) |->
        IF i <= n THEN (IF i <= strlen(src) THEN src[i] ELSE 0) ELSE dst[i]]

\* open(name, O_RDWR | O_CREAT, 0666): -1 when the name is empty (or the
\* pointer NULL), the directory is missing, or the file is absent and cannot
\* be created; otherwise the lowest free descriptor.  No O_TRUNC: an existing
\* file is opened as it is, an absent one is created empty.
OpenFails(files, d, name) ==
    \/ name = NULL
    \/ name = <<>>
    \/ d = "missing"
    \/ /\ files[name] = Absent
       /\ d # "writable"

OpenFiles_ftruncate(files, d, name) ==
    IF OpenFails(files, d, name) THEN files
    ELSE [files EXCEPT ![name] =
            IF files[name] = Absent THEN [i \in 1..MapLen |-> 0]
            ELSE [i \in 1..MapLen |-> IF i <= Len(files[name]) THEN files[name][i] ELSE 0]]

OpenFiles_trunc(files, d, name) ==
    IF OpenFails(files, d, name) THEN files
    ELSE [files EXCEPT ![name] = <<>>]

OpenFiles_nocreat(files, d, name) == files

\* the files after open()
OpenFiles(files, d, name) ==
    IF OpenFails(files, d, name) THEN files
    ELSE IF files[name] = Absent THEN [files EXCEPT ![name] = <<>>]
    ELSE files

\* the descriptor open() returns
OpenFd(files, d, name, tab) ==
    IF OpenFails(files, d, name) THEN -1 ELSE FirstFd + Len(tab)

OpenFdNums(tab) == {FirstFd + i - 1 : i \in 1..Len(tab)}

\* a read of bus_map[off] through a MAP_SHARED mapping of a file: a page that
\* lies wholly beyond the end of the file raises SIGBUS, the rest of the page
\* that holds the end of the file reads as zero.  off < MapLen is within the
\* first page, which is beyond the end exactly when the file is empty.
ReadMap(contents, off) ==
    IF contents = Absent \/ Len(contents) = 0 THEN [sig |-> "SIGBUS", val |-> 0]
    ELSE IF off < Len(contents) THEN [sig |-> "none", val |-> contents[off + 1]]
    ELSE [sig |-> "none", val |-> 0]

definitely_not_zero_one == 2 - 1

definitely_not_zero == 0

\* 1 / d in uint32_t.  Division by zero is undefined: the build either keeps
\* the divide instruction, which raises SIGFPE, or folds 1u / d to (d == 1),
\* which yields 0.
OneOver(d) ==
    IF d = 0 THEN {[sig |-> "SIGFPE", val |-> 0], [sig |-> "none", val |-> 0]}
    ELSE {[sig |-> "none", val |-> 1 \div d]}

\* *oops with oops == NULL is undefined: the build either keeps the load from
\* address 0 (SIGSEGV) or deletes it as unreachable, and control then runs
\* into an invalid-opcode trap: the one the compiler puts there or the ud2 of
\* sig_ill, the next function of the file (SIGILL)
NullDeref == {[sig |-> "SIGSEGV", val |-> 0], [sig |-> "SIGILL", val |-> 0]}

\* ------------------------------------------------------------------- Init
InitFiles ==
    {f \in [Names -> Contents \cup {Absent}] :
        Cardinality({n \in Names : f[n] # Absent}) <= 1}

Init ==
    /\ dir \in {"missing", "readonly", "writable"}
    /\ fs \in InitFiles
    /\ dir = "missing" => \A n \in Names : fs[n] = Absent
    /\ pc = "idle" /\ op = "none" /\ status = "fresh" /\ sig = "none"
    /\ out = <<>> /\ heap = 0 /\ fdtab = <<>> /\ mappings = <<>>
    /\ ret = -1 /\ dnz_calls = 0 /\ ohno = 0
    /\ path = <<>> /\ path_len = 0 /\ fpath = NULL /\ bus_fd = -1
    /\ bus_map = MAP_FAILED
    /\ calls = 0 /\ steps = <<>> /\ fs0 = fs /\ fs_call = fs
    /\ alloc_ok = FALSE /\ ref = <<>>

\* ------------------------------------------------------------ the harness
\* The harness calls `f` in the live process.
Invoke(f, entry) ==
    /\ pc = "idle"
    /\ calls < MaxCalls
    /\ calls' = calls + 1
    /\ pc' = entry /\ op' = f /\ status' = "running"
    /\ steps' = <<>> /\ fs_call' = fs /\ alloc_ok' = FALSE
    /\ ret' = -1 /\ ohno' = 0
    /\ fpath' = NULL /\ bus_fd' = -1 /\ bus_map' = MAP_FAILED
    /\ UNCHANGED <<env, sig, out, heap, fdtab, mappings, dnz_calls, fs0, ref>>

\* The function returns to the harness.
Return ==
    /\ pc' = "idle" /\ status' = "returned"

\* The process dies of signal s.
Die(s) ==
    /\ pc' = "dead" /\ status' = "signaled" /\ sig' = s

\* the first finished sig_bus is remembered
Outcome(st, sg, o) == <<st, sg, o>>
Remember(st, sg, o) ==
    ref' = IF ref = <<>>
           THEN <<[call |-> calls, path |-> path, path_len |-> path_len,
                   alloc_ok |-> alloc_ok, files |-> fs_call,
                   outcome |-> Outcome(st, sg, o)]>>
           ELSE ref

\* The harness starts a fresh process after the previous one died.
Spawn ==
    /\ pc = "dead"
    /\ calls < MaxCalls
    /\ pc' = "idle" /\ op' = "none" /\ status' = "fresh" /\ sig' = "none"
    /\ out' = <<>> /\ heap' = 0 /\ fdtab' = <<>> /\ mappings' = <<>>
    /\ ret' = -1 /\ ohno' = 0
    /\ path' = <<>> /\ path_len' = 0 /\ fpath' = NULL /\ bus_fd' = -1
    /\ bus_map' = MAP_FAILED
    /\ steps' = <<>>
    /\ UNCHANGED <<env, dnz_calls, calls, fs0, fs_call, alloc_ok, ref>>

\* ------------------------------------------------- definitely_not_zero, 8-10
\* one call of definitely_not_zero
DnzCall ==
    /\ ret' = definitely_not_zero
    /\ dnz_calls' = dnz_calls + 1

Invoke_definitely_not_zero ==
    /\ Invoke("definitely_not_zero", "definitely_not_zero:9")
    /\ path' = <<>> /\ path_len' = 0

definitely_not_zero_return ==
    /\ pc = "definitely_not_zero:9"
    /\ op = "definitely_not_zero"
    /\ DnzCall
    /\ Return
    /\ UNCHANGED <<env, op, sig, out, heap, fdtab, mappings>>
    /\ UNCHANGED <<ohno, path, path_len, fpath, bus_fd, bus_map, hist>>

\* ------------------------------------------------------------ sig_fpe, 12-15
Invoke_sig_fpe ==
    /\ Invoke("sig_fpe", "sig_fpe:13")
    /\ path' = <<>> /\ path_len' = 0

\* line 13, the call of the accessor
sig_fpe_call ==
    /\ pc = "sig_fpe:13"
    /\ DnzCall
    /\ pc' = "sig_fpe:13/"
    /\ UNCHANGED <<env, op, status, sig, out, heap, fdtab, mappings>>
    /\ UNCHANGED <<ohno, path, path_len, fpath, bus_fd, bus_map, hist>>

\* line 13, the division
sig_fpe_divide ==
    /\ pc = "sig_fpe:13/"
    /\ \E r \in OneOver(ret) :
          IF r.sig # "none"
          THEN Die(r.sig) /\ UNCHANGED ohno
          ELSE /\ ohno' = r.val
               /\ pc' = "sig_fpe:14"
               /\ UNCHANGED <<status, sig>>
    /\ UNCHANGED <<env, op, out, heap, fdtab, mappings>>
    /\ UNCHANGED <<ret, dnz_calls, path, path_len, fpath, bus_fd, bus_map, hist>>

\* line 14
sig_fpe_printf ==
    /\ pc = "sig_fpe:14"
    /\ out' = Append(out, ohno)
    /\ Return
    /\ UNCHANGED <<env, op, sig, heap, fdtab, mappings, locals, hist>>

\* ----------------------------------------------------------- sig_segv, 17-20
Invoke_sig_segv ==
    /\ Invoke("sig_segv", "sig_segv:19")
    /\ path' = <<>> /\ path_len' = 0

\* line 19: the argument *oops is evaluated before printf is called
sig_segv_deref ==
    /\ pc = "sig_segv:19"
    /\ \E r \in NullDeref :
          IF r.sig # "none"
          THEN Die(r.sig) /\ UNCHANGED out
          ELSE /\ out' = Append(out, r.val)
               /\ Return
               /\ UNCHANGED sig
    /\ UNCHANGED <<env, op, heap, fdtab, mappings, locals, hist>>

\* ------------------------------------------------------------ sig_ill, 22-25
Invoke_sig_ill ==
    /\ Invoke("sig_ill", "sig_ill:24")
    /\ path' = <<>> /\ path_len' = 0

\* line 24: ud2 raises the invalid-opcode exception
sig_ill_ud2 ==
    /\ pc = "sig_ill:24"
    /\ Die("SIGILL")
    /\ UNCHANGED <<env, op, out, heap, fdtab, mappings, locals, hist>>

\* ----------------------------------------------------------- sig_trap, 64-66
Invoke_sig_trap ==
    /\ Invoke("sig_trap", "sig_trap:65")
    /\ path' = <<>> /\ path_len' = 0

\* line 65: int3 raises the breakpoint exception
sig_trap_int3 ==
    /\ pc = "sig_trap:65"
    /\ Die("SIGTRAP")
    /\ UNCHANGED <<env, op, out, heap, fdtab, mappings, locals, hist>>

\* ------------------------------------------------------------ sig_bus, 27-62
Invoke_sig_bus ==
    /\ \E p \in Paths, n \in 0..(MaxPathLen + 1) :
          /\ path' = p
          /\ path_len' = n
    /\ Invoke("sig_bus", "sig_bus:52")

\* line 52: the result of calloc is not tested
sig_bus_calloc ==
    /\ pc = "sig_bus:52"
    /\ \E ok \in BOOLEAN :
          /\ fpath' = calloc(path_len + 1, 1, ok)
          /\ heap' = IF ok THEN heap + 1 ELSE heap
          /\ alloc_ok' = ok
    /\ steps' = Append(steps, "calloc")
    /\ pc' = "sig_bus:53"
    /\ UNCHANGED <<env, op, status, sig, out, fdtab, mappings>>
    /\ UNCHANGED <<ret, dnz_calls, ohno, path, path_len, bus_fd, bus_map>>
    /\ UNCHANGED <<calls, fs0, fs_call, ref>>

\* line 53: with fpath == NULL and path_len > 0 the copy writes to address 0
sig_bus_strncpy ==
    /\ pc = "sig_bus:53"
    /\ steps' = Append(steps, "strncpy")
    /\ IF fpath = NULL /\ path_len > 0
       THEN /\ Die("SIGSEGV")
            /\ Remember("signaled", "SIGSEGV", -1)
            /\ UNCHANGED fpath
       ELSE /\ fpath' = IF fpath = NULL THEN NULL
                        ELSE strncpy(fpath, CStr(path), path_len)
            /\ pc' = "sig_bus:54"
            /\ UNCHANGED <<status, sig, ref>>
    /\ UNCHANGED <<env, op, out, heap, fdtab, mappings>>
    /\ UNCHANGED <<ret, dnz_calls, ohno, path, path_len, bus_fd, bus_map>>
    /\ UNCHANGED <<calls, fs0, fs_call, alloc_ok>>

\* the name open() is given
OpenName == IF fpath = NULL THEN NULL ELSE StrOf(fpath)

\* line 54: the result of open is not tested
sig_bus_open ==
    /\ pc = "sig_bus:54"
    /\ bus_fd' = OpenFd(fs, dir, OpenName, fdtab)
    /\ fs' = OpenFiles(fs, dir, OpenName)
    /\ fdtab' = IF bus_fd' = -1 THEN fdtab ELSE Append(fdtab, OpenName)
    /\ steps' = Append(steps, "open")
    /\ pc' = "sig_bus:55"
    /\ UNCHANGED <<dir, op, status, sig, out, heap, mappings>>
    /\ UNCHANGED <<ret, dnz_calls, ohno, path, path_len, fpath, bus_map>>
    /\ UNCHANGED <<calls, fs0, fs_call, alloc_ok, ref>>

\* line 55: mmap of MapLen bytes of bus_fd; it fails on the descriptor -1 and
\* its result is not tested
sig_bus_mmap ==
    /\ pc = "sig_bus:55"
    /\ IF bus_fd = -1
       THEN /\ bus_map' = MAP_FAILED
            /\ UNCHANGED mappings
       ELSE /\ mappings' = Append(mappings, fdtab[bus_fd - FirstFd + 1])
            /\ bus_map' = Len(mappings')
    /\ steps' = Append(steps, "mmap")
    /\ pc' = "sig_bus:57"
    /\ UNCHANGED <<env, op, status, sig, out, heap, fdtab>>
    /\ UNCHANGED <<ret, dnz_calls, ohno, path, path_len, fpath, bus_fd>>
    /\ UNCHANGED <<calls, fs0, fs_call, alloc_ok, ref>>

\* line 57: the read of bus_map[1]; MAP_FAILED + 1 is address 0
sig_bus_read ==
    /\ pc = "sig_bus:57"
    /\ steps' = Append(steps, "read")
    /\ IF bus_map = MAP_FAILED
       THEN /\ Die("SIGSEGV")
            /\ Remember("signaled", "SIGSEGV", -1)
            /\ UNCHANGED out
       ELSE LET r == ReadMap(fs[mappings[bus_map]], 1) IN
            IF r.sig # "none"
            THEN /\ Die(r.sig)
                 /\ Remember("signaled", r.sig, -1)
                 /\ UNCHANGED out
            ELSE /\ out' = Append(out, r.val)
                 /\ pc' = "sig_bus:60"
                 /\ UNCHANGED <<status, sig, ref>>
    /\ UNCHANGED <<env, op, heap, fdtab, mappings>>
    /\ UNCHANGED <<locals, calls, fs0, fs_call, alloc_ok>>

\* line 60: free(fpath), then the function returns; bus_fd is not closed and
\* bus_map is not unmapped
sig_bus_free ==
    /\ pc = "sig_bus:60"
    /\ heap' = IF fpath = NULL THEN heap ELSE heap - 1
    /\ steps' = Append(steps, "free")
    /\ Return
    /\ Remember("returned", "none", out[Len(out)])
    /\ UNCHANGED <<env, op, sig, out, fdtab, mappings>>
    /\ UNCHANGED <<locals, calls, fs0, fs_call, alloc_ok>>

\* ------------------------------------------------------------------- Next
Next ==
    \/ Invoke_definitely_not_zero
    \/ definitely_not_zero_return
    \/ Invoke_sig_fpe
    \/ sig_fpe_call
    \/ sig_fpe_divide
    \/ sig_fpe_printf
    \/ Invoke_sig_segv
    \/ sig_segv_deref
    \/ Invoke_sig_ill
    \/ sig_ill_ud2
    \/ Invoke_sig_trap
    \/ sig_trap_int3
    \/ Invoke_sig_bus
    \/ sig_bus_calloc
    \/ sig_bus_strncpy
    \/ sig_bus_open
    \/ sig_bus_mmap
    \/ sig_bus_read
    \/ sig_bus_free
    \/ Spawn

Spec == Init /\ [][Next]_vars

TypeOK ==
    /\ dir \in {"missing", "readonly", "writable"}
    /\ fs \in [Names -> Contents \cup {Absent}]
    /\ heap \in 0..MaxCalls
    /\ calls \in 0..MaxCalls
    /\ Len(out) <= MaxCalls

\* ----------------------------------------------------------------- claims
Range(s) == {s[i] : i \in 1..Len(s)}
Pos(s, x) == IF x \in Range(s) THEN CHOOSE i \in 1..Len(s) : s[i] = x ELSE 0
Finished == status \in {"returned", "signaled"}

\* the fault signal each operation is documented to end the process with
Documented(f) ==
    CASE f = "sig_fpe" -> "SIGFPE"
      [] f = "sig_segv" -> "SIGSEGV"
      [] f = "sig_ill" -> "SIGILL"
      [] f = "sig_bus" -> "SIGBUS"
      [] f = "sig_trap" -> "SIGTRAP"

\* C1: each of the five operations, invoked in a process, ends it with exactly
\* its documented fault signal; it never ends it with another signal and
\* never returns.
C1_ExactDocumentedSignal ==
    (op \in FaultOps /\ Finished) =>
        (status = "signaled" /\ sig = Documented(op))

\* sig_bus has called open for the whole of a non-empty path, in a directory
\* that is missing or not writable, and open has failed
OpenFailedForDirectory ==
    /\ op = "sig_bus"
    /\ "open" \in Range(steps)
    /\ alloc_ok /\ path # <<>> /\ path_len >= Len(path)
    /\ dir # "writable"
    /\ bus_fd = -1

\* C2: when open fails because the parent directory of the path is missing or
\* not writable, sig_bus does not attempt the access to the mapping and the
\* process does not die of a fault signal.
C2_SetupFailureIsNoFault ==
    OpenFailedForDirectory =>
        /\ pc # "sig_bus:57"
        /\ "read" \notin Range(steps)
        /\ status # "signaled"

\* the access of line 57 is about to be executed, or has been
AccessReached ==
    /\ op = "sig_bus"
    /\ pc = "sig_bus:57" \/ "read" \in Range(steps)

Opened == fdtab[bus_fd - FirstFd + 1]
StepsInOrder ==
    /\ "mmap" \in Range(steps) =>
          /\ "open" \in Range(steps)
          /\ Pos(steps, "open") < Pos(steps, "mmap")
    /\ "read" \in Range(steps) =>
          /\ "mmap" \in Range(steps)
          /\ Pos(steps, "mmap") < Pos(steps, "read")

C5_AlwaysZero ==
    [][dnz_calls' # dnz_calls =>
          /\ ret' = 0
          /\ UNCHANGED <<dir, fs, out, heap, fdtab, mappings>>]_vars

\* C5 witness: the second call of definitely_not_zero has returned 0, in a
\* process where an earlier operation printed a value and returned
C5_Witness ==
    /\ op = "definitely_not_zero" /\ status = "returned"
    /\ dnz_calls = 2
    /\ ret = 0
    /\ out # <<>>

\* C6: after the copy of line 53, fpath is an allocated buffer of exactly
\* path_len + 1 bytes whose byte at index path_len is NUL and whose string is
\* the first path_len bytes of path, up to path's NUL; the buffer is used only
\* when its allocation succeeded.
C6_OwnedCopy ==
    (op = "sig_bus" /\ "strncpy" \in Range(steps)) =>
        /\ fpath # NULL
        /\ Len(fpath) = path_len + 1
        /\ fpath[path_len + 1] = 0
        /\ StrOf(fpath) =
              SubSeq(path, 1, IF path_len < Len(path) THEN path_len ELSE Len(path))

\* C7: sig_fpe, sig_segv, sig_ill and sig_trap change nothing but the fate of
\* the process: no step of theirs prints, allocates, opens, creates or maps.
C7_NoSideEffects ==
    [][op' \in {"sig_fpe", "sig_segv", "sig_ill", "sig_trap"} =>
          UNCHANGED <<dir, fs, out, heap, fdtab, mappings>>]_vars

\* C8: in sig_bus nothing is released before the access to the mapping (the
\* buffer stays allocated, the descriptor open, the mapping mapped), and when
\* sig_bus returns the buffer has been freed and the descriptor closed.
C8_ReleasedOnlyOnReturn ==
    op = "sig_bus" =>
        /\ "read" \notin Range(steps) =>
              /\ "free" \notin Range(steps)
              /\ alloc_ok => heap >= 1
              /\ bus_fd # -1 => bus_fd \in OpenFdNums(fdtab)
              /\ bus_map # MAP_FAILED => bus_map \in 1..Len(mappings)
        /\ status = "returned" =>
              /\ heap = 0
              /\ bus_fd # -1 => bus_fd \notin OpenFdNums(fdtab)

\* the outcome of the invocation that has just finished
CurrentOutcome ==
    IF status = "returned" THEN Outcome("returned", "none", out[Len(out)])
    ELSE Outcome("signaled", sig, -1)

\* an earlier sig_bus was given the path, the path_len and the allocation
\* result of the one that has just finished
Repeated ==
    /\ op = "sig_bus" /\ Finished
    /\ ref # <<>>
    /\ ref[1].call < calls
    /\ ref[1].path = path /\ ref[1].path_len = path_len
    /\ ref[1].alloc_ok = alloc_ok

====
